---- MODULE Spec2Model ----
(***************************************************************************)
(* Heatit WiFi6 thermostat integration: the HTTP client of api.py and the  *)
(* climate entity of climate.py, as coroutines that interleave at their    *)
(* await points (an HTTP request in flight, an asyncio.sleep).  Everything *)
(* between two awaits of one coroutine is one atomic step, as on an        *)
(* asyncio event loop.                                                     *)
(***************************************************************************)
EXTENDS Integers, Sequences, FiniteSets, TLC

VARIABLES
    self,   \* the HeatitWiFi6Thermostat instance: attribute name -> value
    pc,     \* per task: "idle", "get", "sleep", "post", "done"
    frame   \* per task: the locals of the running call and what it did so far

vars == <<self, pc, frame>>

-----------------------------------------------------------------------------
(* Bounds *)

\* setpoint and target temperature values are 1..MaxTemp
MaxTemp == 1

\* _get is called with retries in 0..MaxRetries
MaxRetries == 3

\* a response text has at most MaxLen lexemes
MaxLen == 5

\* the host holds at most MaxEntries config entries of the domain
MaxEntries == 3

\* the nesting depth beyond which json.loads gives up with RecursionError
\* (the interpreter's recursion limit, scaled to the texts of the model)
RecursionLimit == 2

-----------------------------------------------------------------------------
(* Python values *)

\* None in an attribute that otherwise holds a string or an enum member
None == "None"

\* None in an attribute that otherwise holds a number
NoneNum == -1

\* the empty mapping {}
Empty == [k \in {} |-> None]

\* bool(d) of a mapping
Truthy(d) == DOMAIN d # {}

\* d.get(k, default)
Get(d, k, default) == IF k \in DOMAIN d THEN d[k] ELSE default

\* setattr(obj, name, value): sets the attribute, creating it when absent
SetAttr(obj, name, value) ==
    [a \in DOMAIN obj \cup {name} |-> IF a = name THEN value ELSE obj[a]]

HVACMode_OFF == "off"
HVACMode_HEAT == "heat"
HVACMode_COOL == "cool"

HVACAction_OFF == "off"
HVACAction_IDLE == "idle"
HVACAction_HEATING == "heating"
HVACAction_COOLING == "cooling"

PRESET_ECO == "eco"
PRESET_NONE == "none"

Temps == 1..MaxTemp

-----------------------------------------------------------------------------
(* What the device can answer *)

\* a full status object
StatusObject(sensorMode, operatingMode, state, heating, cooling, eco) ==
    [ parameters |-> [ sensorMode |-> sensorMode,
                       operatingMode |-> operatingMode,
                       heatingSetpoint |-> heating,
                       coolingSetpoint |-> cooling,
                       ecoSetpoint |-> eco ],
      state |-> state,
      floorTemperature |-> 18,
      externalTemperature |-> 5,
      internalTemperature |-> 21,
      network |-> [status |-> "connected"],
      firmware |-> "1.0" ]

\* operatingMode codes the firmware may report; 4 stands for any unknown code
OperatingModes == 0..4

\* state strings the firmware may report; "Fault" stands for any unknown one
States == {"Idle", "Heating", "Cooling", "Fault"}

\* a setpoint the firmware reports: a value, or null
Setpoints == Temps \cup {NoneNum}

\* a status object that lacks the parameters block
PartialObjects == { [id |-> "heatit"] }

\* status objects: every operating mode with every state, the three
\* setpoints all different
ModeObjects ==
    { StatusObject(1, om, st, 1, 2, 3) : om \in OperatingModes, st \in States }
    \cup PartialObjects

\* <<heating, cooling, eco>> as the firmware reports them: the three alike,
\* or one of them set and the others null
SetpointTriples ==
    { <<x, x, x>> : x \in Setpoints }
    \cup { <<1, NoneNum, NoneNum>>, <<NoneNum, 1, NoneNum>>, <<NoneNum, NoneNum, 1>> }

\* status objects: every setpoint triple, the device off or heating
SetpointObjects ==
    { StatusObject(1, om, "Idle", sp[1], sp[2], sp[3]) :
        om \in 0..1, sp \in SetpointTriples }

\* response bodies of the status endpoint that carry one of `objects`, an
\* empty object, or no JSON object: an empty text, one that does not look like
\* an object, one that json.loads rejects, and one nested too deep for it
StatusBodies(objects) ==
    { [kind |-> "object", value |-> o] : o \in objects \cup {Empty} }
    \cup { [kind |-> k, value |-> Empty] :
             k \in {"empty", "not_object", "invalid", "too_deep"} }

\* response bodies of the parameters endpoint
PostBodies ==
    { [kind |-> "object", value |-> o] :
        o \in { [status |-> "Success", value |-> "ok"], [status |-> "Failed"],
                [detail |-> "no status"], Empty } }
    \cup { [kind |-> k, value |-> Empty] : k \in {"empty", "invalid", "too_deep"} }

\* response bodies of the reset endpoint
DeleteBodies ==
    { [kind |-> "object", value |-> o] :
        o \in { [status |-> "Success", value |-> "ok"], [status |-> "Failed"],
                [detail |-> "no status"], Empty } }
    \cup { [kind |-> k, value |-> Empty] : k \in {"empty", "invalid", "too_deep"} }

-----------------------------------------------------------------------------
(* api.py *)

\* _parse_json: the decoded object of a body that is a valid JSON object,
\* the empty mapping for an empty body, one that does not look like an
\* object, and one that json.loads rejects
ParseJson(body) ==
    IF body.kind = "object" THEN body.value ELSE Empty

\* _parse_json raises on the body: json.loads raised something that is not a
\* JSONDecodeError
ParseRaises(body) == body.kind = "too_deep"

\* The text of a body, lexeme by lexeme: white space, the braces and brackets,
\* "k" for a key with its colon ("k":) and "1" for a digit.  No lexeme but "{"
\* starts with an opening brace, none but "}" ends with a closing one.
Lexemes == {" ", "{", "}", "k", "[", "]", "1"}

Texts == UNION { [1..n -> Lexemes] : n \in 0..MaxLen }

\* what _parse_json may be handed: a str, or something that is not a str
Str(chars) == [type |-> "str", chars |-> chars]
NonString == [type |-> "NoneType"]

\* str.strip()
Strip(chars) ==
    LET inked == {i \in 1..Len(chars) : chars[i] # " "}
    IN  IF inked = {} THEN <<>>
        ELSE SubSeq(chars, CHOOSE i \in inked : \A j \in inked : i <= j,
                           CHOOSE i \in inked : \A j \in inked : i >= j)

\* json scanner: the first place from i on that holds no white space
RECURSIVE SkipWs(_, _)
SkipWs(chars, i) ==
    IF i <= Len(chars) /\ chars[i] = " " THEN SkipWs(chars, i + 1) ELSE i

\* json scanner: the place after the run of digits that starts at i
RECURSIVE EndOfDigits(_, _)
EndOfDigits(chars, i) ==
    IF i <= Len(chars) /\ chars[i] = "1" THEN EndOfDigits(chars, i + 1) ELSE i

\* int() of a run of n digits "1"
RECURSIVE Ones(_)
Ones(n) == IF n = 0 THEN 0 ELSE 10 * Ones(n - 1) + 1

Scanned(value, next) == [kind |-> "ok", value |-> value, next |-> next]
JSONDecodeError == [kind |-> "JSONDecodeError"]
RecursionError == [kind |-> "RecursionError"]

\* json scanner, scan_once: the value that starts at place i, read inside
\* `depth` enclosing arrays and objects.  An array holds at most one value and
\* an object at most one member (no lexeme stands for the comma).
RECURSIVE ScanOnce(_, _, _)
ScanOnce(chars, i, depth) ==
    LET at(j) == IF j <= Len(chars) THEN chars[j] ELSE "end"
        inner == SkipWs(chars, i + 1)
    IN  CASE at(i) = "1" ->
                Scanned(Ones(EndOfDigits(chars, i) - i), EndOfDigits(chars, i))
          [] at(i) = "[" ->
                IF depth + 1 > RecursionLimit THEN RecursionError
                ELSE IF at(inner) = "]" THEN Scanned(<<>>, inner + 1)
                ELSE LET element == ScanOnce(chars, inner, depth + 1)
                     IN  IF element.kind # "ok" THEN element
                         ELSE IF at(SkipWs(chars, element.next)) = "]"
                         THEN Scanned(<<element.value>>, SkipWs(chars, element.next) + 1)
                         ELSE JSONDecodeError
          [] at(i) = "{" ->
                IF depth + 1 > RecursionLimit THEN RecursionError
                ELSE IF at(inner) = "}" THEN Scanned(Empty, inner + 1)
                ELSE IF at(inner) # "k" THEN JSONDecodeError
                ELSE LET member == ScanOnce(chars, SkipWs(chars, inner + 1), depth + 1)
                     IN  IF member.kind # "ok" THEN member
                         ELSE IF at(SkipWs(chars, member.next)) = "}"
                         THEN Scanned([key \in {"k"} |-> member.value],
                                      SkipWs(chars, member.next) + 1)
                         ELSE JSONDecodeError
          [] OTHER -> JSONDecodeError

\* json.loads: one value with nothing but white space around it
JsonLoads(chars) ==
    LET document == ScanOnce(chars, SkipWs(chars, 1), 0)
    IN  IF document.kind # "ok" THEN document
        ELSE IF SkipWs(chars, document.next) <= Len(chars) THEN JSONDecodeError
        ELSE document

\* _parse_json: the text after strip() is not empty and looks like an object
LooksLikeObject(chars) ==
    /\ chars # <<>>
    /\ chars[1] = "{"
    /\ chars[Len(chars)] = "}"

\* _parse_json on a text: what it returns, or that it raises (it catches
\* json.JSONDecodeError and nothing else)
_parse_json(text) ==
    IF text.type # "str" THEN [raised |-> FALSE, data |-> Empty]
    ELSE LET stripped == Strip(text.chars)
         IN  IF ~LooksLikeObject(stripped) THEN [raised |-> FALSE, data |-> Empty]
             ELSE LET loaded == JsonLoads(stripped)
                  IN  CASE loaded.kind = "ok" -> [raised |-> FALSE, data |-> loaded.value]
                        [] loaded.kind = "JSONDecodeError" -> [raised |-> FALSE, data |-> Empty]
                        [] OTHER -> [raised |-> TRUE, data |-> Empty]

\* _get, except asyncio.TimeoutError: the wait before the next attempt
TimeoutWait(attempt) == (attempt + 1) * 2

\* a handler that waits the same time before every retry
FlatWait(attempt) == 2

\* _get, except Exception: the wait before the next attempt
ExceptionWait(attempt) == (attempt + 1) * 2

\* a loop that runs once more than range(retries + 1)
RetriesOnceMore(attempt, retries) == attempt <= retries

\* range(retries + 1) has another element after `attempt`
MayRetry(attempt, retries) == attempt < retries

\* a _post that lets a timeout through to its caller
PostCatchesClientErrors(error) == error # "TimeoutError"

\* _post, except Exception: the exceptions it turns into the empty mapping
PostCatches(error) == TRUE

\* _delete, except Exception: the exceptions it turns into the empty mapping
DeleteCatches(error) == TRUE

\* what a request may raise: a timeout, an error of the connection, and the
\* exception of _parse_json
Errors == {"TimeoutError", "ClientError", "RecursionError"}

\* reset_device: the reset types that are sent to the device
ResetTypes == {"factory", "settings", "kwh"}

\* a reset_device that sends whatever type it is given
AnyResetType(reset_type) == TRUE

\* reset_device: reset_type in ["factory", "settings", "kwh"]
AllowedResetType(reset_type) == reset_type \in ResetTypes

\* reset_device: the path of the DELETE, segment by segment
ResetEndpoint(reset_type) == <<"API_RESET", reset_type>>

\* reset_device's result for a reset type that is not allowed
UnknownResetType == [status |-> "Failed", detail |-> "Unknown reset_type."]

\* reset_device's result from _delete's result
ResetDeviceResult(response) ==
    IF Truthy(response) /\ Get(response, "status", "Failed") = "Success"
    THEN response ELSE Empty

\* set_parameter's result from _post's result
SetParameterResult(response) ==
    IF Truthy(response) /\ Get(response, "status", "Failed") = "Success"
    THEN response ELSE Empty

-----------------------------------------------------------------------------
(* climate.py: HeatitWiFi6Thermostat *)

\* __init__: the attributes of a new entity
NewThermostat ==
    [ _hvac_mode |-> HVACMode_OFF,
      _hvac_action |-> HVACAction_OFF,
      _temperature |-> NoneNum,
      _set_temperature_pending |-> FALSE,
      _param_heatingSetpoint |-> NoneNum,
      _param_coolingSetpoint |-> NoneNum,
      _param_ecoSetpoint |-> NoneNum,
      _param_operatingMode |-> NoneNum,
      _net_status |-> None,
      _hw_firmware |-> None,
      _available |-> TRUE,
      _preset_mode |-> PRESET_NONE ]

\* a translation that takes Heat for Cool and Cool for Heat
HeatCoolSwapped(mode) ==
    CASE mode = HVACMode_OFF -> 0
      [] mode = HVACMode_HEAT -> 2
      [] mode = HVACMode_COOL -> 1
      [] OTHER -> -1

\* _hvac_mode_to_heatit_operatingmode
HvacModeToOperatingMode(mode) ==
    CASE mode = HVACMode_OFF -> 0
      [] mode = HVACMode_HEAT -> 1
      [] mode = HVACMode_COOL -> 2
      [] OTHER -> -1

\* a mapping that gives Eco an HVAC mode of its own
EcoAsOwnMode(operatingmode) ==
    CASE operatingmode = 0 -> HVACMode_OFF
      [] operatingmode = 1 -> HVACMode_HEAT
      [] operatingmode = 2 -> HVACMode_COOL
      [] operatingmode = 3 -> "eco"
      [] OTHER -> None

\* _heatit_operatingmode_to_hvac_mode
OperatingModeToHvacMode(operatingmode) ==
    CASE operatingmode = 0 -> HVACMode_OFF
      [] operatingmode = 1 -> HVACMode_HEAT
      [] operatingmode = 2 -> HVACMode_COOL
      [] operatingmode = 3 -> HVACMode_HEAT
      [] OTHER -> None

\* _heatit_state_to_hvac_action, reading self._hvac_mode
StateToHvacAction(s, state) ==
    CASE state = "Idle" ->
            IF s._hvac_mode = HVACMode_OFF THEN HVACAction_OFF ELSE HVACAction_IDLE
      [] state = "Heating" -> HVACAction_HEATING
      [] state = "Cooling" -> HVACAction_COOLING
      [] OTHER -> None

\* async_update: the preset that goes with an operating mode
PresetOfOperatingMode(operatingmode) ==
    IF operatingmode = 3 THEN PRESET_ECO
    ELSE IF operatingmode = 1 THEN PRESET_NONE
    ELSE PRESET_NONE

\* async_update: the reading that becomes the current temperature
CurrentTemperature(data) ==
    LET sensorMode == Get(Get(data, "parameters", Empty), "sensorMode", NoneNum)
    IN  CASE sensorMode = 0 -> Get(data, "floorTemperature", NoneNum)
          [] sensorMode \in {3, 4} -> Get(data, "externalTemperature", NoneNum)
          [] OTHER -> Get(data, "internalTemperature", NoneNum)

\* async_update: data.get("parameters").get("operatingMode") raises when the
\* status object has no parameters block (None has no get)
UpdateRaises(data) == "parameters" \notin DOMAIN data

\* an async_update that does not look at the pending flag
StoresSetpointsAlways(s) == TRUE

\* async_update: the setpoints are taken from the poll unless a setpoint
\* write is pending
StoresSetpoints(s) == ~s._set_temperature_pending

\* an async_update that does not mark the device available again
UpdateHeadKeepsAvailability(s, data) ==
    [s EXCEPT !._temperature = CurrentTemperature(data)]

\* async_update, non-empty data: the assignments made before the read of
\* operatingMode
UpdateHead(s, data) ==
    [s EXCEPT !._available = TRUE, !._temperature = CurrentTemperature(data)]

\* an async_update that derives the action before it stores the HVAC mode
UpdateModeStaleAction(s, data) ==
    LET om == Get(data.parameters, "operatingMode", NoneNum)
    IN  [s EXCEPT !._param_operatingMode = om,
                  !._preset_mode = PresetOfOperatingMode(om),
                  !._hvac_mode = OperatingModeToHvacMode(om),
                  !._hvac_action = StateToHvacAction(s, Get(data, "state", None))]

\* async_update, non-empty data: operating mode, preset, HVAC mode and action
UpdateMode(s, data) ==
    LET om == Get(data.parameters, "operatingMode", NoneNum)
        s1 == [s EXCEPT !._param_operatingMode = om,
                        !._preset_mode = PresetOfOperatingMode(om),
                        !._hvac_mode = OperatingModeToHvacMode(om)]
    IN  [s1 EXCEPT !._hvac_action = StateToHvacAction(s1, Get(data, "state", None))]

\* async_update, non-empty data: the three setpoints
UpdateSetpoints(s, data) ==
    LET parameters == Get(data, "parameters", Empty)
    IN  IF StoresSetpoints(s)
        THEN [s EXCEPT
                !._param_coolingSetpoint = Get(parameters, "coolingSetpoint", NoneNum),
                !._param_heatingSetpoint = Get(parameters, "heatingSetpoint", NoneNum),
                !._param_ecoSetpoint = Get(parameters, "ecoSetpoint", NoneNum)]
        ELSE s

\* async_update, non-empty data: the rest of the snapshot (of the fields
\* that are only copied, the network status and the firmware)
UpdateInfo(s, data) ==
    [s EXCEPT !._net_status = Get(Get(data, "network", Empty), "status", None),
              !._hw_firmware = Get(data, "firmware", None)]

\* a failure branch that marks the device unavailable and keeps its modes
UpdateFailedKeepsMode(s) ==
    [s EXCEPT !._available = FALSE,
              !._net_status = "fail"]

\* a failure branch that also forgets the setpoints
UpdateFailedDropsSetpoints(s) ==
    [s EXCEPT !._available = FALSE,
              !._param_operatingMode = NoneNum,
              !._hvac_mode = HVACMode_OFF,
              !._hvac_action = HVACAction_OFF,
              !._net_status = "fail",
              !._param_heatingSetpoint = NoneNum,
              !._param_coolingSetpoint = NoneNum,
              !._param_ecoSetpoint = NoneNum]

\* async_update, empty data
UpdateFailed(s) ==
    [s EXCEPT !._available = FALSE,
              !._param_operatingMode = NoneNum,
              !._hvac_mode = HVACMode_OFF,
              !._hvac_action = HVACAction_OFF,
              !._net_status = "fail"]

\* async_update from the status fetch on: the entity afterwards
Updated(s, data) ==
    IF ~Truthy(data) THEN UpdateFailed(s)
    ELSE IF UpdateRaises(data) THEN UpdateHead(s, data)
    ELSE UpdateInfo(UpdateSetpoints(UpdateMode(UpdateHead(s, data), data), data), data)

\* target_temperature
target_temperature(s) ==
    CASE s._param_operatingMode = 1 -> s._param_heatingSetpoint
      [] s._param_operatingMode = 2 -> s._param_coolingSetpoint
      [] s._param_operatingMode = 3 -> s._param_ecoSetpoint
      [] OTHER -> NoneNum

\* a list that offers every mode whatever the stored one is
AllHvacModes(s) == {HVACMode_OFF, HVACMode_HEAT, HVACMode_COOL}

\* hvac_modes
hvac_modes(s) ==
    CASE s._hvac_mode = HVACMode_HEAT -> {HVACMode_OFF, HVACMode_HEAT}
      [] s._hvac_mode = HVACMode_COOL -> {HVACMode_OFF, HVACMode_COOL}
      [] OTHER -> {HVACMode_OFF, HVACMode_HEAT}

\* a match that writes the heating setpoint in Eco mode
SetpointParamNoEco(operatingmode) ==
    CASE operatingmode = 1 -> "heatingSetpoint"
      [] operatingmode = 2 -> "coolingSetpoint"
      [] operatingmode = 3 -> "heatingSetpoint"
      [] OTHER -> None

\* async_set_temperature: the parameter written in an operating mode, None
\* when the match falls through
SetpointParam(operatingmode) ==
    CASE operatingmode = 1 -> "heatingSetpoint"
      [] operatingmode = 2 -> "coolingSetpoint"
      [] operatingmode = 3 -> "ecoSetpoint"
      [] OTHER -> None

\* an async_set_temperature that never turns a call down
NeverRejectsSetpoint(s) == FALSE

\* async_set_temperature: the call is turned down because the device is off
RejectsSetpoint(s) == s._hvac_mode = HVACMode_OFF

-----------------------------------------------------------------------------
(* Tasks: coroutines on the event loop *)

Tasks == DOMAIN pc


\* the locals of a call, before it starts; log is what the call did so far
NoCall ==
    [ op |-> "none", retries |-> 0, attempt |-> 0, waits |-> <<>>, data |-> Empty,
      temperature |-> NoneNum, preset_mode |-> None, hvac_mode |-> None,
      force |-> FALSE, param |-> None, value |-> NoneNum,
      reset_type |-> None, endpoint |-> <<>>,
      raised |-> FALSE, pending_seen |-> FALSE, available_seen |-> FALSE,
      log |-> <<>> ]

Logged(f, event) == [f EXCEPT !.log = Append(@, event)]

\* a call of the HTTP client by itself also records what came of each request
Noted(f, event) ==
    IF f.op \in {"_get", "_post", "reset_device"} THEN Logged(f, event) ELSE f

Did(f, event) == \E i \in 1..Len(f.log) : f.log[i] = event

Count(f, event) == Cardinality({i \in 1..Len(f.log) : f.log[i] = event})

\* _get: the loop is entered, the first request goes out
StartGet(f, retries) ==
    Logged([f EXCEPT !.retries = retries, !.attempt = 0, !.waits = <<>>], "GET")

\* the call of task t ends, with locals f
Ends(t, f) ==
    /\ pc' = [pc EXCEPT ![t] = "done"]
    /\ frame' = [frame EXCEPT ![t] = f]

\* the call of task t goes on to await get_status(retries=1, timeout=5)
AwaitsStatus(t, f) ==
    /\ pc' = [pc EXCEPT ![t] = "get"]
    /\ frame' = [frame EXCEPT ![t] = StartGet(f, 1)]

\* the call of task t goes on to await set_parameter(param, value)
AwaitsPost(t, f, param, value) ==
    /\ pc' = [pc EXCEPT ![t] = "post"]
    /\ frame' = [frame EXCEPT ![t] = Logged([f EXCEPT !.param = param, !.value = value], "POST")]

\* async_update from the return of get_status on, and what the caller of
\* async_update does after it; an exception of async_update ends the call
AfterStatus(t, f, data) ==
    LET raises == Truthy(data) /\ UpdateRaises(data)
        s1 == Updated(self, data)
        f1 == Logged([f EXCEPT !.data = data, !.raised = raises,
                               !.pending_seen = self._set_temperature_pending,
                               !.available_seen = self._available],
                     IF raises THEN "update raised"
                     ELSE IF Truthy(data) THEN "update" ELSE "update failed")
    IN  IF f.op = "async_set_temperature" /\ Did(f, "POST") /\ ~raises
        THEN /\ self' = [s1 EXCEPT !._set_temperature_pending = FALSE]
             /\ Ends(t, Logged(f1, "pending=False"))
        ELSE /\ self' = s1
             /\ Ends(t, f1)

\* _get returns data
GetReturns(t, f, data) ==
    IF f.op = "_get"
    THEN /\ Ends(t, [f EXCEPT !.data = data])
         /\ UNCHANGED self
    ELSE AfterStatus(t, f, data)

\* _get: an attempt failed; wait is the backoff of the handler that caught it
GetFailed(t, f, wait) ==
    IF MayRetry(f.attempt, f.retries)
    THEN /\ pc' = [pc EXCEPT ![t] = "sleep"]
         /\ frame' = [frame EXCEPT ![t] = Logged([f EXCEPT !.waits = Append(@, wait)], "sleep")]
         /\ UNCHANGED self
    ELSE GetReturns(t, f, Empty)

\* _get: the request of the current attempt is answered
GetResponse(t, objects) ==
    /\ pc[t] = "get"
    /\ \E body \in StatusBodies(objects) :
          IF ParseRaises(body)
          THEN GetFailed(t, Noted(frame[t], "response"), ExceptionWait(frame[t].attempt))
          ELSE GetReturns(t, Noted(frame[t], "response"), ParseJson(body))

\* _get: the current attempt times out
GetTimeout(t) ==
    /\ pc[t] = "get"
    /\ GetFailed(t, frame[t], TimeoutWait(frame[t].attempt))

\* _get: the current attempt raises another exception
GetException(t) ==
    /\ pc[t] = "get"
    /\ GetFailed(t, frame[t], ExceptionWait(frame[t].attempt))

\* _get: the sleep is over, the next attempt goes out
GetRetry(t) ==
    /\ pc[t] = "sleep"
    /\ pc' = [pc EXCEPT ![t] = "get"]
    /\ frame' = [frame EXCEPT ![t] = Logged([@ EXCEPT !.attempt = @ + 1], "GET")]
    /\ UNCHANGED self

\* every caller of set_parameter refreshes only after an accepted write
RefreshesOnSuccess(op, result) == Truthy(result)

\* async_set_preset_mode and async_set_hvac_mode: whether the call goes on
\* to async_update after set_parameter returned result
RefreshesAfterWrite(op, result) ==
    op = "async_set_preset_mode" \/ Truthy(result)

\* what the caller of set_parameter does with its result
AfterPost(t, f, result) ==
    IF f.op = "async_set_temperature"
    THEN IF Truthy(result)
         THEN /\ self' = [SetAttr(self, f.param, f.temperature)
                             EXCEPT !._set_temperature_pending = FALSE]
              /\ AwaitsStatus(t, Logged(Logged(f, "setattr"), "pending=False"))
         ELSE /\ self' = [self EXCEPT !._set_temperature_pending = FALSE]
              /\ Ends(t, Logged(f, "pending=False"))
    ELSE /\ IF RefreshesAfterWrite(f.op, result) THEN AwaitsStatus(t, f) ELSE Ends(t, f)
         /\ UNCHANGED self

\* _post returns response: to the caller of _post, or to set_parameter and
\* through it to the entity
PostReturns(t, f, response) ==
    IF f.op = "_post"
    THEN /\ Ends(t, [f EXCEPT !.data = response])
         /\ UNCHANGED self
    ELSE LET result == SetParameterResult(response)
         IN  AfterPost(t, Logged(f, IF Truthy(result) THEN "accepted" ELSE "refused"), result)

\* _post: the request or the parsing of its answer raises error
PostRaised(t, f, error) ==
    IF PostCatches(error)
    THEN PostReturns(t, f, Empty)
    ELSE /\ Ends(t, [f EXCEPT !.raised = TRUE])
         /\ UNCHANGED self

\* _post: the request is answered
PostResponse(t) ==
    /\ pc[t] = "post"
    /\ \E body \in PostBodies :
          IF ParseRaises(body)
          THEN PostRaised(t, Noted(frame[t], "response"), "RecursionError")
          ELSE PostReturns(t, Noted(frame[t], "response"), ParseJson(body))

\* _post: the request raises (a timeout included)
PostException(t) ==
    /\ pc[t] = "post"
    /\ \E error \in Errors \ {"RecursionError"} :
          PostRaised(t, Noted(frame[t], "exception"), error)

\* _delete: the request or the parsing of its answer raises error
DeleteRaised(t, f, error) ==
    /\ IF DeleteCatches(error)
       THEN Ends(t, [f EXCEPT !.data = ResetDeviceResult(Empty)])
       ELSE Ends(t, [f EXCEPT !.raised = TRUE])
    /\ UNCHANGED self

\* _delete: the request is answered, and reset_device returns
DeleteResponse(t) ==
    /\ pc[t] = "delete"
    /\ \E body \in DeleteBodies :
          IF ParseRaises(body)
          THEN DeleteRaised(t, Noted(frame[t], "response"), "RecursionError")
          ELSE /\ Ends(t, [Noted(frame[t], "response")
                              EXCEPT !.data = ResetDeviceResult(ParseJson(body))])
               /\ UNCHANGED self

\* _delete: the request raises (a timeout included), and reset_device returns
DeleteException(t) ==
    /\ pc[t] = "delete"
    /\ \E error \in Errors \ {"RecursionError"} :
          DeleteRaised(t, Noted(frame[t], "exception"), error)

\* the host polls: async_update
CallUpdate(t) ==
    /\ pc[t] = "idle"
    /\ AwaitsStatus(t, [NoCall EXCEPT !.op = "async_update"])
    /\ UNCHANGED self

\* async_set_temperature(temperature=temperature), to its first await or its return
CallSetTemperature(t, temperature) ==
    LET f == [NoCall EXCEPT !.op = "async_set_temperature", !.temperature = temperature]
        param == SetpointParam(self._param_operatingMode)
    IN  /\ pc[t] = "idle"
        /\ IF RejectsSetpoint(self)
           THEN /\ AwaitsStatus(t, Logged(f, "rejected"))
                /\ UNCHANGED self
           ELSE IF temperature = NoneNum
           THEN /\ Ends(t, f)
                /\ UNCHANGED self
           ELSE /\ self' = [self EXCEPT !._set_temperature_pending = TRUE]
                /\ IF param = None
                   THEN Ends(t, Logged(f, "pending=True"))
                   ELSE AwaitsPost(t, Logged(f, "pending=True"), param, temperature)

\* an async_set_preset_mode that writes nothing while the device is off
CallSetPresetModeUnlessOff(t, preset_mode) ==
    LET f == [NoCall EXCEPT !.op = "async_set_preset_mode", !.preset_mode = preset_mode]
    IN  /\ pc[t] = "idle"
        /\ IF self._hvac_mode = HVACMode_OFF
           THEN AwaitsStatus(t, f)
           ELSE IF preset_mode = PRESET_ECO
           THEN AwaitsPost(t, f, "operatingMode", 3)
           ELSE IF preset_mode = PRESET_NONE \/ preset_mode = None
           THEN AwaitsPost(t, f, "operatingMode", 1)
           ELSE AwaitsStatus(t, f)
        /\ UNCHANGED self

\* async_set_preset_mode(preset_mode), to its first await
CallSetPresetMode(t, preset_mode) ==
    LET f == [NoCall EXCEPT !.op = "async_set_preset_mode", !.preset_mode = preset_mode]
    IN  /\ pc[t] = "idle"
        /\ IF preset_mode = PRESET_ECO
           THEN AwaitsPost(t, f, "operatingMode", 3)
           ELSE IF preset_mode = PRESET_NONE \/ preset_mode = None
           THEN AwaitsPost(t, f, "operatingMode", 1)
           ELSE AwaitsStatus(t, f)
        /\ UNCHANGED self

\* async_set_hvac_mode(hvac_mode, force), to its first await or its return
CallSetHvacMode(t, hvac_mode, force) ==
    LET f == [NoCall EXCEPT !.op = "async_set_hvac_mode", !.hvac_mode = hvac_mode,
                            !.force = force]
    IN  /\ pc[t] = "idle"
        /\ IF ~force /\ hvac_mode \notin hvac_modes(self)
           THEN Ends(t, f)
           ELSE AwaitsPost(t, f, "operatingMode", HvacModeToOperatingMode(hvac_mode))
        /\ UNCHANGED self

\* _get(endpoint, timeout, retries) called by itself, to its first await
CallGet(t, retries) ==
    /\ pc[t] = "idle"
    /\ pc' = [pc EXCEPT ![t] = "get"]
    /\ frame' = [frame EXCEPT ![t] = StartGet([NoCall EXCEPT !.op = "_get"], retries)]
    /\ UNCHANGED self

\* _post(endpoint, data) called by itself, to its first await
CallPost(t) ==
    /\ pc[t] = "idle"
    /\ pc' = [pc EXCEPT ![t] = "post"]
    /\ frame' = [frame EXCEPT ![t] = Logged([NoCall EXCEPT !.op = "_post"], "POST")]
    /\ UNCHANGED self

\* reset_device(reset_type), to its first await or its return
CallResetDevice(t, reset_type) ==
    LET f == [NoCall EXCEPT !.op = "reset_device", !.reset_type = reset_type]
    IN  /\ pc[t] = "idle"
        /\ IF ~AllowedResetType(reset_type)
           THEN Ends(t, [f EXCEPT !.data = UnknownResetType])
           ELSE /\ pc' = [pc EXCEPT ![t] = "delete"]
                /\ frame' = [frame EXCEPT ![t] =
                                Logged([f EXCEPT !.endpoint = ResetEndpoint(reset_type)],
                                       "DELETE")]
        /\ UNCHANGED self

\* the caller of a finished call drops it
Return(t) ==
    /\ pc[t] = "done"
    /\ pc' = [pc EXCEPT ![t] = "idle"]
    /\ frame' = [frame EXCEPT ![t] = NoCall]
    /\ UNCHANGED self

\* the values the host passes
TemperatureArgs == Temps \cup {NoneNum}
PresetArgs == {PRESET_ECO, PRESET_NONE, None, "boost"}
\* <<hvac_mode, force>>; force matters for a mode that may not be in hvac_modes
HvacModeArgs ==
    { <<m, FALSE>> : m \in {HVACMode_OFF, HVACMode_HEAT, HVACMode_COOL, "auto"} }
    \cup { <<m, TRUE>> : m \in {HVACMode_HEAT, HVACMode_COOL, "auto"} }

Init ==
    /\ self = NewThermostat
    /\ pc = [t \in {"task"} |-> "idle"]
    /\ frame = [t \in {"task"} |-> NoCall]

Update == \E t \in Tasks : CallUpdate(t)

SetTemperature ==
    \E t \in Tasks, temperature \in TemperatureArgs : CallSetTemperature(t, temperature)

SetPresetMode ==
    \E t \in Tasks, preset_mode \in PresetArgs : CallSetPresetMode(t, preset_mode)

SetHvacMode ==
    \E t \in Tasks, arg \in HvacModeArgs : CallSetHvacMode(t, arg[1], arg[2])

StatusResponse == \E t \in Tasks : GetResponse(t, ModeObjects)

Timeout == \E t \in Tasks : GetTimeout(t)

Exception == \E t \in Tasks : GetException(t)

Retry == \E t \in Tasks : GetRetry(t)

Posted == \E t \in Tasks : PostResponse(t)

PostFailed == \E t \in Tasks : PostException(t)

Returned == \E t \in Tasks : Return(t)

Next ==
    \/ Update
    \/ SetTemperature
    \/ SetPresetMode
    \/ SetHvacMode
    \/ StatusResponse
    \/ Timeout
    \/ Exception
    \/ Retry
    \/ Posted
    \/ PostFailed
    \/ Returned

Spec == Init /\ [][Next]_vars

-----------------------------------------------------------------------------
(* The HTTP client alone: _get with any number of retries *)

InitApi ==
    /\ self = NewThermostat
    /\ pc = [t \in {"api"} |-> "idle"]
    /\ frame = [t \in {"api"} |-> NoCall]

ApiGet == \E retries \in 0..MaxRetries : CallGet("api", retries)

ApiResponse == GetResponse("api", ModeObjects)

ApiTimeout == GetTimeout("api")

ApiException == GetException("api")

ApiRetry == GetRetry("api")

ApiPost == CallPost("api")

ApiPosted == PostResponse("api")

ApiPostFailed == PostException("api")

ResetArgs == ResetTypes \cup {"reboot", ""}

ApiResetDevice == \E reset_type \in ResetArgs : CallResetDevice("api", reset_type)

ApiDeleted == DeleteResponse("api")

ApiDeleteFailed == DeleteException("api")

ApiReturned == Return("api")

NextApi ==
    \/ ApiGet
    \/ ApiResponse
    \/ ApiTimeout
    \/ ApiException
    \/ ApiRetry
    \/ ApiPost
    \/ ApiPosted
    \/ ApiPostFailed
    \/ ApiResetDevice
    \/ ApiDeleted
    \/ ApiDeleteFailed
    \/ ApiReturned

SpecApi == InitApi /\ [][NextApi]_vars

-----------------------------------------------------------------------------
(* The body parser alone: _parse_json on any text *)

ParseArgs == { Str(chars) : chars \in Texts } \cup {NonString}

InitParse ==
    /\ self = NewThermostat
    /\ pc = [t \in {"parse"} |-> "idle"]
    /\ \E text \in ParseArgs :
          frame = [t \in {"parse"} |->
                     [op |-> "none", text |-> text, data |-> Empty, raised |-> FALSE]]

\* _parse_json(text), to its return or its exception
Parse ==
    /\ pc["parse"] = "idle"
    /\ pc' = [pc EXCEPT !["parse"] = "done"]
    /\ frame' = [frame EXCEPT !["parse"] =
                    [op |-> "_parse_json", text |-> @.text,
                     data |-> _parse_json(@.text).data,
                     raised |-> _parse_json(@.text).raised]]
    /\ UNCHANGED self

NextParse == Parse

SpecParse == InitParse /\ [][NextParse]_vars

-----------------------------------------------------------------------------
(* The periodic poll of the host beside a setpoint command *)

InitRace ==
    /\ self = NewThermostat
    /\ pc = [t \in {"poll", "cmd"} |-> "idle"]
    /\ frame = [t \in {"poll", "cmd"} |-> NoCall]

RaceUpdate == CallUpdate("poll")

RaceSetTemperature ==
    \E temperature \in TemperatureArgs : CallSetTemperature("cmd", temperature)

RaceStatusResponse == \E t \in Tasks : GetResponse(t, SetpointObjects)

NextRace ==
    \/ RaceUpdate
    \/ RaceSetTemperature
    \/ RaceStatusResponse
    \/ Timeout
    \/ Exception
    \/ Retry
    \/ Posted
    \/ PostFailed
    \/ Returned

SpecRace == InitRace /\ [][NextRace]_vars

-----------------------------------------------------------------------------
(* Two callers on one entity: each polls or writes a setpoint *)

\* status objects: the device heating or cooling
TwoObjects == { StatusObject(1, om, "Idle", 1, 2, 3) : om \in 1..2 }

InitTwo ==
    /\ self = NewThermostat
    /\ pc = [t \in {"cmd1", "cmd2"} |-> "idle"]
    /\ frame = [t \in {"cmd1", "cmd2"} |-> NoCall]

TwoStatusResponse == \E t \in Tasks : GetResponse(t, TwoObjects)

NextTwo ==
    \/ Update
    \/ SetTemperature
    \/ TwoStatusResponse
    \/ Timeout
    \/ Exception
    \/ Retry
    \/ Posted
    \/ PostFailed
    \/ Returned

SpecTwo == InitTwo /\ [][NextTwo]_vars

-----------------------------------------------------------------------------
(* __init__.py: the setup of the config entries of the domain.  Here `self`
   is the host's registry of config entries and every entry is a task. *)

EntryIds == 1..MaxEntries

\* hass.config_entries.async_entries(DOMAIN): entries in some order, none twice
EntryLists ==
    { l \in UNION { [1..n -> EntryIds] : n \in 0..MaxEntries } :
        \A i, j \in 1..Len(l) : l[i] = l[j] => i = j }

\* [e.entry_id for e in entries].index(entry_id), 0 on ValueError
IndexOf(entries, entry_id) ==
    IF \E i \in 1..Len(entries) : entries[i] = entry_id
    THEN (CHOOSE i \in 1..Len(entries) :
             entries[i] = entry_id /\ \A j \in 1..(i - 1) : entries[j] # entry_id) - 1
    ELSE 0

\* a stagger without the offset of the first entry
NoOffsetWait(index) == index * 2

\* wait_seconds
WaitSeconds(index) == index * 2 + 2

NoSetup == [op |-> "none", index |-> 0, wait_seconds |-> 0, log |-> <<>>]

InitSetup ==
    /\ \E entries \in EntryLists : self = [entries |-> entries]
    /\ pc = [e \in EntryIds |-> "idle"]
    /\ frame = [e \in EntryIds |-> NoSetup]

\* async_setup_entry(hass, entry), to its sleep, or to the forwarding of the
\* platform setup when there is nothing to wait
SetupEntry ==
    \E e \in Tasks :
        LET index == IndexOf(self.entries, e)
            wait_seconds == WaitSeconds(index)
            f == [NoSetup EXCEPT !.op = "async_setup_entry", !.index = index,
                                 !.wait_seconds = wait_seconds]
        IN  /\ pc[e] = "idle"
            /\ IF wait_seconds # 0
               THEN /\ pc' = [pc EXCEPT ![e] = "sleep"]
                    /\ frame' = [frame EXCEPT ![e] = Logged(f, "sleep")]
               ELSE /\ pc' = [pc EXCEPT ![e] = "done"]
                    /\ frame' = [frame EXCEPT ![e] = Logged(f, "forward")]
            /\ UNCHANGED self

\* async_setup_entry: the sleep is over, the platform setup is forwarded
SetupForward ==
    \E e \in Tasks :
        /\ pc[e] = "sleep"
        /\ pc' = [pc EXCEPT ![e] = "done"]
        /\ frame' = [frame EXCEPT ![e] = Logged(@, "forward")]
        /\ UNCHANGED self

NextSetup ==
    \/ SetupEntry
    \/ SetupForward

SpecSetup == InitSetup /\ [][NextSetup]_vars

-----------------------------------------------------------------------------
(* Properties *)

\* the first place of event in the log of f, 0 when it is not there
First(f, event) ==
    IF Did(f, event) THEN CHOOSE i \in 1..Len(f.log) :
                             f.log[i] = event /\ \A j \in 1..(i - 1) : f.log[j] # event
    ELSE 0

\* the last place of event in the log of f, 0 when it is not there
Last(f, event) ==
    IF Did(f, event) THEN CHOOSE i \in 1..Len(f.log) :
                             f.log[i] = event /\ \A j \in (i + 1)..Len(f.log) : f.log[j] # event
    ELSE 0

\* the call of f ran async_update to its end or to its exception
Polled(f) == Did(f, "update") \/ Did(f, "update failed") \/ Did(f, "update raised")

\* task t takes the step in which its async_update runs, get_status returned
UpdateStep(t) == pc[t] = "get" /\ pc'[t] = "done" /\ frame'[t].op # "_get"

StoredSetpoints(s) ==
    <<s._param_heatingSetpoint, s._param_coolingSetpoint, s._param_ecoSetpoint>>

\* C1: a poll that gets a non-empty status while the pending flag is set leaves
\* the stored heating, cooling and eco setpoints as they were, however the poll
\* and a setpoint command interleave
C1_PendingSetpointsKept ==
    [][\A t \in Tasks :
          (UpdateStep(t) /\ Truthy(frame'[t].data) /\ self._set_temperature_pending)
             => StoredSetpoints(self') = StoredSetpoints(self)]_vars

\* the periodic poll got a status whose three setpoints all differ from the
\* stored ones while the setpoint POST of the command was in flight
C1_Witness ==
    /\ pc["poll"] = "done" /\ pc["cmd"] = "post"
    /\ frame["poll"].pending_seen
    /\ Truthy(frame["poll"].data)
    /\ frame["poll"].data.parameters.heatingSetpoint # self._param_heatingSetpoint
    /\ frame["poll"].data.parameters.coolingSetpoint # self._param_coolingSetpoint
    /\ frame["poll"].data.parameters.ecoSetpoint # self._param_ecoSetpoint

\* C2: a call of async_set_temperature with a temperature that is not turned
\* down for the device being off marks pending, writes, clears pending and
\* refreshes, in this order, and the pending flag is false when it returns
C2_PendingClearedOnReturn ==
    \A t \in Tasks :
        LET f == frame[t]
        IN  (/\ pc[t] = "done"
             /\ f.op = "async_set_temperature"
             /\ ~Did(f, "rejected")
             /\ f.temperature # NoneNum)
            => /\ ~self._set_temperature_pending
               /\ First(f, "pending=True") = 1
               /\ First(f, "POST") = 2
               /\ First(f, "pending=False") > 2
               /\ Polled(f)
               /\ First(f, "pending=False") < Last(f, "GET")

\* C3: a _get with retries = N whose attempts all fail makes exactly N+1
\* attempts and returns the empty mapping without raising; no _get makes more
\* than N+1 attempts, and none sleeps after attempt N+1
C3_RetriesExhaust ==
    \A t \in Tasks :
        LET f == frame[t]
        IN  f.op = "_get"
            => /\ Count(f, "GET") <= f.retries + 1
               /\ pc[t] = "sleep" => Count(f, "GET") <= f.retries
               /\ (pc[t] = "done" /\ ~Did(f, "response"))
                     => /\ Count(f, "GET") = f.retries + 1
                        /\ ~Truthy(f.data)
                        /\ ~f.raised

\* a _get with the largest number of retries has failed in every attempt
C3_Witness ==
    /\ pc["api"] = "done"
    /\ frame["api"].op = "_get"
    /\ frame["api"].retries = MaxRetries
    /\ ~Did(frame["api"], "response")
    /\ Count(frame["api"], "GET") = MaxRetries + 1

\* C4: the wait after failed attempt k (from 0) of a _get is 2*(k+1) seconds
\* whatever made the attempt fail, the waits of a call increase strictly, and
\* every wait is followed by another attempt (none after the last attempt)
C4_Backoff ==
    \A t \in Tasks :
        LET f == frame[t]
        IN  f.op = "_get"
            => /\ \A k \in 0..(Len(f.waits) - 1) : f.waits[k + 1] = 2 * (k + 1)
               /\ \A i, j \in 1..Len(f.waits) : i < j => f.waits[i] < f.waits[j]
               /\ Len(f.waits) = Count(f, "sleep")
               /\ Len(f.waits) <= f.retries
               /\ \A i \in 1..Len(f.log) :
                     f.log[i] = "sleep"
                        => IF i = Len(f.log) THEN pc[t] = "sleep" ELSE f.log[i + 1] = "GET"
               /\ pc[t] = "done" => Len(f.waits) = Count(f, "GET") - 1

\* a _get has waited three times and failed again
C4_Witness ==
    /\ pc["api"] = "done"
    /\ frame["api"].op = "_get"
    /\ ~Did(frame["api"], "response")
    /\ frame["api"].waits = <<2, 4, 6>>

\* C5 as stated: a poll whose status fetch yields the empty mapping sets the
\* availability flag to false and leaves operating mode, HVAC mode and action,
\* setpoints, temperature, network status, firmware and preset as they were
C5_StaleSnapshotKept ==
    [][\A t \in Tasks :
          (UpdateStep(t) /\ ~Truthy(frame'[t].data))
             => /\ self'._available = FALSE
                /\ \A a \in { "_param_operatingMode", "_hvac_mode", "_hvac_action",
                              "_param_heatingSetpoint", "_param_coolingSetpoint",
                              "_param_ecoSetpoint", "_temperature", "_net_status",
                              "_hw_firmware", "_preset_mode" } : self'[a] = self[a]]_vars

\* C5, amended: a poll whose status fetch yields the empty mapping sets the
\* availability flag to false, the operating mode to null, HVAC mode and
\* action to Off and the network status to "fail", and leaves setpoints,
\* temperature, firmware and preset as they were
C5_FailedPollEffect ==
    [][\A t \in Tasks :
          (UpdateStep(t) /\ ~Truthy(frame'[t].data))
             => /\ self'._available = FALSE
                /\ self'._param_operatingMode = NoneNum
                /\ self'._hvac_mode = HVACMode_OFF
                /\ self'._hvac_action = HVACAction_OFF
                /\ self'._net_status = "fail"
                /\ \A a \in { "_param_heatingSetpoint", "_param_coolingSetpoint",
                              "_param_ecoSetpoint", "_temperature", "_hw_firmware",
                              "_preset_mode" } : self'[a] = self[a]]_vars

\* a poll failed on a device that was available, and the entity still holds
\* the setpoints, temperature, firmware and Eco preset of an earlier poll
C5_Witness ==
    /\ pc["task"] = "done"
    /\ frame["task"].op = "async_update"
    /\ Did(frame["task"], "update failed")
    /\ frame["task"].available_seen
    /\ ~self._available
    /\ self._param_operatingMode = NoneNum
    /\ self._net_status = "fail"
    /\ StoredSetpoints(self) = <<1, 2, 3>>
    /\ self._temperature = 21
    /\ self._hw_firmware = "1.0"
    /\ self._preset_mode = PRESET_ECO

\* C6: when async_update has run, the availability flag is true exactly when
\* its status fetch returned a non-empty mapping; so the first poll with a
\* non-empty status makes an unavailable device available again
C6_AvailabilityFollowsFetch ==
    [][\A t \in Tasks :
          UpdateStep(t) => (self'._available <=> Truthy(frame'[t].data))]_vars

\* a poll found the device unavailable, got a non-empty status, and the device
\* is available
C6_Witness ==
    /\ pc["task"] = "done"
    /\ frame["task"].op = "async_update"
    /\ ~frame["task"].available_seen
    /\ Truthy(frame["task"].data)
    /\ Did(frame["task"], "update")
    /\ self._available

\* C7: async_update does not raise on any non-empty status object, and an
\* unknown operating mode or state gives a null HVAC mode or action
C7_UpdateNeverRaises ==
    \A t \in Tasks :
        LET f == frame[t]
        IN  (pc[t] = "done" /\ f.op # "_get" /\ Polled(f) /\ Truthy(f.data))
            => /\ ~f.raised
               /\ Did(f, "update")

\* C8: while the stored operating mode is 3 the HVAC mode is Heat and the
\* preset is Eco, and the HVAC mode is never anything but Off, Heat, Cool or
\* null
C8_EcoIsHeatPlusPreset ==
    /\ self._param_operatingMode = 3
          => (self._hvac_mode = HVACMode_HEAT /\ self._preset_mode = PRESET_ECO)
    /\ self._hvac_mode \in {HVACMode_OFF, HVACMode_HEAT, HVACMode_COOL, None}

\* a poll stored operating mode 3
C8_Witness ==
    /\ pc["task"] = "done"
    /\ Did(frame["task"], "update")
    /\ frame["task"].data.parameters.operatingMode = 3
    /\ self._param_operatingMode = 3
    /\ self._hvac_mode = HVACMode_HEAT
    /\ self._preset_mode = PRESET_ECO

\* C9: a call of async_set_temperature made while the stored HVAC mode is Off,
\* or without a temperature, issues no POST and never sets the pending flag;
\* it changes the entity only in the status poll that the turned-down call runs
C9_RejectedWhenOff ==
    /\ [][\A t \in Tasks :
            (/\ pc[t] = "idle"
             /\ frame'[t].op = "async_set_temperature"
             /\ (self._hvac_mode = HVACMode_OFF \/ frame'[t].temperature = NoneNum))
            => /\ self' = self
               /\ pc'[t] # "post"
               /\ ~Did(frame'[t], "pending=True")
               /\ self._hvac_mode = HVACMode_OFF <=> Did(frame'[t], "rejected")]_vars
    /\ [][\A t \in Tasks :
            (/\ frame[t].op = "async_set_temperature"
             /\ (Did(frame[t], "rejected") \/ frame[t].temperature = NoneNum))
            => /\ pc'[t] # "post"
               /\ ~Did(frame'[t], "POST")
               /\ ~Did(frame'[t], "pending=True")
               /\ self' # self => UpdateStep(t)]_vars

\* a call with a temperature was turned down, and ran its status poll
C9_Witness ==
    /\ pc["task"] = "done"
    /\ frame["task"].op = "async_set_temperature"
    /\ frame["task"].temperature # NoneNum
    /\ Did(frame["task"], "rejected")
    /\ Did(frame["task"], "update")
    /\ ~Did(frame["task"], "POST")

\* C10 as stated: a call of async_set_hvac_mode that passes the check of the
\* supported modes, or of async_set_preset_mode with a supported preset,
\* issues one POST of operatingMode and then polls the status before it
\* returns, whether the write succeeded or not
C10_AlwaysRefreshes ==
    \A t \in Tasks :
        LET f == frame[t]
        IN  (/\ pc[t] = "done"
             /\ f.op \in {"async_set_hvac_mode", "async_set_preset_mode"}
             /\ Did(f, "POST"))
            => /\ Count(f, "POST") = 1
               /\ f.param = "operatingMode"
               /\ Polled(f)
               /\ First(f, "POST") < Last(f, "GET")

\* C10, amended: such a call issues one POST of operatingMode;
\* async_set_preset_mode then polls the status whether the write succeeded or
\* not, async_set_hvac_mode polls it only when the write succeeded
C10_RefreshAfterWrite ==
    /\ [][\A t \in Tasks :
            (/\ pc[t] = "idle"
             /\ \/ /\ frame'[t].op = "async_set_hvac_mode"
                   /\ (frame'[t].force \/ frame'[t].hvac_mode \in hvac_modes(self))
                \/ /\ frame'[t].op = "async_set_preset_mode"
                   /\ frame'[t].preset_mode \in {PRESET_ECO, PRESET_NONE, None})
            => /\ pc'[t] = "post"
               /\ frame'[t].param = "operatingMode"
               /\ frame'[t].log = <<"POST">>]_vars
    /\ [][\A t \in Tasks :
            (/\ pc'[t] = "done"
             /\ frame'[t].op \in {"async_set_hvac_mode", "async_set_preset_mode"}
             /\ Did(frame'[t], "POST"))
            => /\ Count(frame'[t], "POST") = 1
               /\ Polled(frame'[t])
                    <=> (frame'[t].op = "async_set_preset_mode" \/ Did(frame'[t], "accepted"))
               /\ Polled(frame'[t]) => First(frame'[t], "POST") < Last(frame'[t], "GET")]_vars

\* a call of async_set_hvac_mode has returned after a write that the device
\* did not accept, without a poll
C10_Witness ==
    /\ pc["task"] = "done"
    /\ frame["task"].op = "async_set_hvac_mode"
    /\ Did(frame["task"], "POST")
    /\ Did(frame["task"], "refused")
    /\ ~Polled(frame["task"])

\* C11: _parse_json never raises; it returns the empty mapping for a text that
\* is not a string, that is empty or only white space, that after trimming
\* does not start with "{" and end with "}", and for a brace-delimited text
\* that is not valid JSON; it returns a decoded object only for a valid JSON
\* object
C11_ParseNeverRaises ==
    \A t \in Tasks :
        LET f == frame[t]
            malformed == \/ f.text.type # "str"
                         \/ ~LooksLikeObject(Strip(f.text.chars))
                         \/ JsonLoads(Strip(f.text.chars)).kind # "ok"
        IN  (pc[t] = "done" /\ f.op = "_parse_json")
            => /\ ~f.raised
               /\ malformed => f.data = Empty

\* C12: a _post and a _delete make one HTTP attempt per call; when the request
\* times out or raises anything else they return the empty mapping, without
\* another attempt, without a wait and without raising
C12_OneAttempt ==
    \A t \in Tasks :
        LET f == frame[t]
        IN  f.op \in {"_post", "reset_device"}
            => /\ Count(f, "POST") + Count(f, "DELETE") <= 1
               /\ pc[t] # "sleep"
               /\ ~Did(f, "sleep")
               /\ f.waits = <<>>
               /\ ~f.raised
               /\ (pc[t] = "done" /\ Did(f, "exception"))
                     => /\ f.data = Empty
                        /\ Count(f, "POST") + Count(f, "DELETE") = 1
                        /\ ~Did(f, "response")

\* a _post whose request raised has returned the empty mapping
C12_Witness ==
    /\ pc["api"] = "done"
    /\ frame["api"].op = "_post"
    /\ frame["api"].log = <<"POST", "exception">>
    /\ frame["api"].data = Empty
    /\ ~frame["api"].raised

\* C16: reset_device sends no request for a reset type other than factory,
\* settings and kwh and returns a result with status "Failed"; for one of the
\* three it sends one DELETE whose last path segment is the reset type, and
\* returns a non-empty mapping only when the response has status "Success"
C16_ResetOnlyAllowedTypes ==
    \A t \in Tasks :
        LET f == frame[t]
        IN  f.op = "reset_device"
            => IF f.reset_type \in {"factory", "settings", "kwh"}
               THEN /\ pc[t] \in {"delete", "done"}
                    /\ Count(f, "DELETE") = 1
                    /\ f.endpoint # <<>>
                    /\ f.endpoint[Len(f.endpoint)] = f.reset_type
                    /\ (pc[t] = "done" /\ Truthy(f.data))
                          => /\ Did(f, "response")
                             /\ f.data.status = "Success"
               ELSE /\ pc[t] = "done"
                    /\ f.log = <<>>
                    /\ Truthy(f.data)
                    /\ f.data.status = "Failed"

\* a reset of a type that is not allowed has returned, nothing was sent
C16_Witness ==
    /\ pc["api"] = "done"
    /\ frame["api"].op = "reset_device"
    /\ frame["api"].reset_type = "reboot"
    /\ ~Did(frame["api"], "DELETE")
    /\ frame["api"].data.status = "Failed"

\* C20: a _get returns at the first attempt that receives an HTTP response,
\* with no further attempt and no wait, also when the body of the response is
\* empty or malformed and parses to the empty mapping
C20_StopsAtFirstResponse ==
    \A t \in Tasks :
        LET f == frame[t]
        IN  (f.op = "_get" /\ Did(f, "response"))
            => /\ pc[t] = "done"
               /\ Count(f, "response") = 1
               /\ f.log[Len(f.log)] = "response"
               /\ Count(f, "GET") = Len(f.waits) + 1

\* C13: target_temperature is the stored heating setpoint in operating mode 1,
\* the cooling setpoint in mode 2, the eco setpoint in mode 3 and null in any
\* other mode; async_set_temperature with a temperature writes heatingSetpoint,
\* coolingSetpoint or ecoSetpoint in the modes 1, 2, 3 and sends nothing in
\* any other stored operating mode
C13_SetpointFollowsMode ==
    /\ [](/\ self._param_operatingMode = 1
              => target_temperature(self) = self._param_heatingSetpoint
          /\ self._param_operatingMode = 2
              => target_temperature(self) = self._param_coolingSetpoint
          /\ self._param_operatingMode = 3
              => target_temperature(self) = self._param_ecoSetpoint
          /\ self._param_operatingMode \notin {1, 2, 3}
              => target_temperature(self) = NoneNum)
    /\ [][\A t \in Tasks :
            (/\ pc[t] = "idle"
             /\ frame'[t].op = "async_set_temperature"
             /\ frame'[t].temperature # NoneNum)
            => /\ self._param_operatingMode = 1
                    => (/\ pc'[t] = "post"
                        /\ frame'[t].param = "heatingSetpoint"
                        /\ frame'[t].value = frame'[t].temperature)
               /\ self._param_operatingMode = 2
                    => (/\ pc'[t] = "post"
                        /\ frame'[t].param = "coolingSetpoint"
                        /\ frame'[t].value = frame'[t].temperature)
               /\ self._param_operatingMode = 3
                    => (/\ pc'[t] = "post"
                        /\ frame'[t].param = "ecoSetpoint"
                        /\ frame'[t].value = frame'[t].temperature)
               /\ self._param_operatingMode \notin {1, 2, 3}
                    => (pc'[t] # "post" /\ ~Did(frame'[t], "POST"))]_vars

\* in Eco mode, with the three stored setpoints all different, the eco
\* setpoint is the target and a write of ecoSetpoint is in flight
C13_Witness ==
    /\ pc["task"] = "post"
    /\ frame["task"].op = "async_set_temperature"
    /\ frame["task"].param = "ecoSetpoint"
    /\ self._param_operatingMode = 3
    /\ StoredSetpoints(self) = <<1, 2, 3>>
    /\ target_temperature(self) = 3

\* C14: a poll that got a status object stores the action of its state:
\* Heating for "Heating", Cooling for "Cooling", null for an unknown string,
\* and for "Idle" Off when the operatingMode of the same object is 0 and Idle
\* otherwise, whatever the HVAC mode was before the poll
C14_ActionFromSamePoll ==
    [][\A t \in Tasks :
          (UpdateStep(t) /\ Did(frame'[t], "update"))
             => LET state == frame'[t].data.state
                    om == frame'[t].data.parameters.operatingMode
                IN  self'._hvac_action =
                       CASE state = "Heating" -> HVACAction_HEATING
                         [] state = "Cooling" -> HVACAction_COOLING
                         [] state = "Idle" ->
                               IF om = 0 THEN HVACAction_OFF ELSE HVACAction_IDLE
                         [] OTHER -> None]_vars

\* a poll found the entity Off after a failed poll, got "Idle" with
\* operatingMode 1, and the action is Idle
C14_Witness ==
    /\ pc["task"] = "done"
    /\ frame["task"].op = "async_update"
    /\ Did(frame["task"], "update")
    /\ ~frame["task"].available_seen
    /\ frame["task"].data.state = "Idle"
    /\ frame["task"].data.parameters.operatingMode = 1
    /\ self._hvac_action = HVACAction_IDLE

\* C15: a poll stores Off for operatingMode 0, Heat for 1, Cool for 2, Heat
\* for 3 and null for any other value; and the operatingMode that
\* async_set_hvac_mode sends for Off, Heat or Cool translates back to the mode
\* that was asked for
C15_ModeTranslation ==
    \A t \in Tasks :
        LET f == frame[t]
        IN  /\ (pc[t] = "done" /\ f.op # "_get" /\ Did(f, "update"))
                 => self._hvac_mode =
                       CASE f.data.parameters.operatingMode = 0 -> HVACMode_OFF
                         [] f.data.parameters.operatingMode = 1 -> HVACMode_HEAT
                         [] f.data.parameters.operatingMode = 2 -> HVACMode_COOL
                         [] f.data.parameters.operatingMode = 3 -> HVACMode_HEAT
                         [] OTHER -> None
            /\ (/\ pc[t] = "post"
                /\ f.op = "async_set_hvac_mode"
                /\ f.hvac_mode \in {HVACMode_OFF, HVACMode_HEAT, HVACMode_COOL})
                 => /\ f.value \in 0..2
                    /\ OperatingModeToHvacMode(f.value) = f.hvac_mode

\* async_set_hvac_mode(Cool) has sent operatingMode 2
C15_Witness ==
    /\ pc["task"] = "post"
    /\ frame["task"].op = "async_set_hvac_mode"
    /\ frame["task"].hvac_mode = HVACMode_COOL
    /\ frame["task"].param = "operatingMode"
    /\ frame["task"].value = 2

\* C18: from the moment the device accepted the write of async_set_temperature
\* until the refreshing poll has run, target_temperature is the temperature
\* that was written
C18_WrittenSetpointShown ==
    \A t \in Tasks :
        LET f == frame[t]
        IN  (/\ f.op = "async_set_temperature"
             /\ Did(f, "accepted")
             /\ pc[t] \in {"get", "sleep"})
            => target_temperature(self) = f.temperature

\* C17: the config entry at position i (from 0) of the entry list of the
\* domain waits 2*i + 2 seconds before its platform setup is forwarded; every
\* entry waits at least 2 seconds, and two entries at different positions
\* never wait the same time
C17_StaggeredStartup ==
    /\ \A e \in Tasks :
          pc[e] # "idle"
             => /\ \A i \in 1..Len(self.entries) :
                      self.entries[i] = e => frame[e].wait_seconds = 2 * (i - 1) + 2
                /\ frame[e].wait_seconds >= 2
                /\ frame[e].log = IF pc[e] = "sleep" THEN <<"sleep">>
                                  ELSE <<"sleep", "forward">>
    /\ \A i, j \in 1..Len(self.entries) :
          (/\ i # j
           /\ pc[self.entries[i]] # "idle"
           /\ pc[self.entries[j]] # "idle")
             => frame[self.entries[i]].wait_seconds # frame[self.entries[j]].wait_seconds

\* as many entries as the host may hold have been set up, after waits of
\* 2, 4, 6, ... seconds
C17_Witness ==
    /\ Len(self.entries) = MaxEntries
    /\ \A e \in Tasks : pc[e] = "done"
    /\ { frame[e].wait_seconds : e \in Tasks } = { 2 * i : i \in 1..MaxEntries }

\* C19: with two calls of async_set_temperature interleaved on one entity,
\* the pending flag is set in every state in which the setpoint POST of at
\* least one of them is in flight
C19_PendingWhilePostInFlight ==
    (\E t \in Tasks : pc[t] = "post" /\ frame[t].op = "async_set_temperature")
        => self._set_temperature_pending

\* C21: in every reachable state the preset is Eco only if the stored
\* operating mode is 3 and the HVAC mode is Heat; the preset is not Eco while
\* the HVAC mode is Off or the device is unavailable
C21_EcoOnlyInModeThree ==
    self._preset_mode = PRESET_ECO
        => /\ self._param_operatingMode = 3
           /\ self._hvac_mode = HVACMode_HEAT
           /\ self._available

\* C22: in every reachable state in which the availability flag is false the
\* stored operating mode is null, HVAC mode and action are Off and
\* target_temperature is null; and a call of async_set_temperature made in
\* such a state is turned down without a POST
C22_UnavailableIsOff ==
    /\ [](~self._available
            => /\ self._param_operatingMode = NoneNum
               /\ self._hvac_mode = HVACMode_OFF
               /\ self._hvac_action = HVACAction_OFF
               /\ target_temperature(self) = NoneNum)
    /\ [][\A t \in Tasks :
            (/\ pc[t] = "idle"
             /\ frame'[t].op = "async_set_temperature"
             /\ ~self._available)
            => /\ Did(frame'[t], "rejected")
               /\ pc'[t] # "post"
               /\ ~Did(frame'[t], "POST")
               /\ self' = self]_vars
    /\ [][\A t \in Tasks :
            (frame[t].op = "async_set_temperature" /\ Did(frame[t], "rejected"))
            => (pc'[t] # "post" /\ ~Did(frame'[t], "POST"))]_vars

\* a call of async_set_temperature with a temperature on an unavailable
\* device, which had stored setpoints, was turned down and sent no POST
C22_Witness ==
    /\ pc["task"] = "done"
    /\ frame["task"].op = "async_set_temperature"
    /\ frame["task"].temperature # NoneNum
    /\ Did(frame["task"], "rejected")
    /\ ~frame["task"].available_seen
    /\ ~Did(frame["task"], "POST")
    /\ StoredSetpoints(self) = <<1, 2, 3>>

\* C23: async_set_hvac_mode without force sends a POST only for a mode of
\* hvac_modes, which is Off and Cool when the stored HVAC mode is Cool and Off
\* and Heat otherwise; for any other mode it sends nothing and changes nothing,
\* so that no such call asks for Cool while the stored mode is not Cool
C23_OnlyListedModes ==
    [][\A t \in Tasks :
          (/\ pc[t] = "idle"
           /\ frame'[t].op = "async_set_hvac_mode"
           /\ ~frame'[t].force)
          => LET listed == IF self._hvac_mode = HVACMode_COOL
                           THEN {HVACMode_OFF, HVACMode_COOL}
                           ELSE {HVACMode_OFF, HVACMode_HEAT}
             IN  /\ self' = self
                 /\ IF frame'[t].hvac_mode \in listed
                    THEN /\ pc'[t] = "post"
                         /\ frame'[t].param = "operatingMode"
                    ELSE /\ pc'[t] = "done"
                         /\ frame'[t].log = <<>>
                 /\ (pc'[t] = "post" /\ frame'[t].value = 2)
                       => self._hvac_mode = HVACMode_COOL]_vars

\* a call for Cool without force, made while the stored HVAC mode is Heat,
\* has returned and nothing was sent
C23_Witness ==
    /\ pc["task"] = "done"
    /\ frame["task"].op = "async_set_hvac_mode"
    /\ frame["task"].hvac_mode = HVACMode_COOL
    /\ ~frame["task"].force
    /\ frame["task"].log = <<>>
    /\ self._hvac_mode = HVACMode_HEAT

\* C24: async_set_preset_mode writes operatingMode 3 for the preset Eco and
\* operatingMode 1 for the preset None or a null preset, whatever the stored
\* HVAC mode is, and sends no POST for any other preset; in all three cases it
\* polls the status before it returns
C24_PresetWrites ==
    /\ [][\A t \in Tasks :
            (pc[t] = "idle" /\ frame'[t].op = "async_set_preset_mode")
            => /\ frame'[t].preset_mode = PRESET_ECO
                    => (/\ pc'[t] = "post"
                        /\ frame'[t].param = "operatingMode"
                        /\ frame'[t].value = 3)
               /\ frame'[t].preset_mode \in {PRESET_NONE, None}
                    => (/\ pc'[t] = "post"
                        /\ frame'[t].param = "operatingMode"
                        /\ frame'[t].value = 1)
               /\ frame'[t].preset_mode \notin {PRESET_ECO, PRESET_NONE, None}
                    => (pc'[t] = "get" /\ ~Did(frame'[t], "POST"))]_vars
    /\ [](\A t \in Tasks :
            (pc[t] = "done" /\ frame[t].op = "async_set_preset_mode")
            => /\ Polled(frame[t])
               /\ Count(frame[t], "POST") <= 1
               /\ Did(frame[t], "POST") => First(frame[t], "POST") < Last(frame[t], "GET")
               /\ Did(frame[t], "POST")
                     <=> frame[t].preset_mode \in {PRESET_ECO, PRESET_NONE, None})

\* the write of operatingMode 3 for the preset Eco is in flight while the
\* stored HVAC mode is Off
C24_Witness ==
    /\ pc["task"] = "post"
    /\ frame["task"].op = "async_set_preset_mode"
    /\ frame["task"].preset_mode = PRESET_ECO
    /\ frame["task"].value = 3
    /\ self._hvac_mode = HVACMode_OFF

====
